---- MODULE Spec2Model ----
(***************************************************************************)
(* Model of copy_logs_from_cloudwatch_to_s3 (src/main.py): the incremental *)
(* export of CloudWatch log events to S3 objects, with the checkpoint kept *)
(* in the object {prefix}/config_file.                                     *)
(*                                                                         *)
(* The source log group and the bucket are the environment.  The log group *)
(* gains events only between runs; the lastEventTimestamp of a stream      *)
(* descriptor is eventually consistent: it is absent or stale until the    *)
(* service refreshes it.  A run is a sequence of steps, one per call to    *)
(* the services; every call may fail and the process may be terminated     *)
(* between any two calls.  Runs are sequential.                            *)
(***************************************************************************)
EXTENDS Integers, Sequences, FiniteSets

(* ------------------------------ bounds -------------------------------- *)
MaxRuns == 3
MaxEvents == 2
MaxStep == 1

Streams == {"a", "b"}
\* Event timestamps: 0 and a range that crosses from one decimal digit to two.
Times == {0} \cup (9 .. (9 + MaxStep))
\* The values of --min-size the runs are started with: the default and a threshold.
MinSizes == {0, 2}
\* Payload sizes in bytes: below the threshold and on it.
Sizes == {1, 2}

(* --------------------------- pure helpers ----------------------------- *)
Max(S) == CHOOSE x \in S : \A y \in S : y <= x

\* str(n) for n >= 0: the decimal digits, most significant first.
RECURSIVE StrOfInt(_)
StrOfInt(n) == IF n < 10 THEN <<n>> ELSE Append(StrOfInt(n \div 10), n % 10)

\* int(s) of a string of decimal digits.
RECURSIVE IntOfStr(_)
IntOfStr(s) ==
    IF Len(s) = 0 THEN 0
    ELSE 10 * IntOfStr(SubSeq(s, 1, Len(s) - 1)) + s[Len(s)]

\* The checkpoint object: absent, or present with a body.
NoObject == [exists |-> FALSE, body |-> <<>>]
Object(b) == [exists |-> TRUE, body |-> b]

\* Each definition of the run's decisions is preceded by faulty variants of
\* it; a property that rests on the definition fails when a variant takes
\* its place.

\* Variants: the last byte of the body is not read; the body is ignored.
ParseCheckpointShort(body) == IntOfStr(SubSeq(body, 1, Len(body) - 1))
ParseCheckpointZero(body) == 0
\* last_written_time = int(s3_response['Body'].read(s3_response['ContentLength']))
ParseCheckpoint(body) == IntOfStr(body)

\* Variant: the checkpoint that was read is written back.
CheckpointBodyStale(lwt, lwtr) == StrOfInt(lwt)
\* Body=str.encode(str(last_written_this_run))
CheckpointBody(lwt, lwtr) == StrOfInt(lwtr)

\* Variant: every ClientError is taken for an absent object.
IsFirstImportAny(code) == TRUE
\* except ClientError on get_object: 404 is the first import, anything else raises.
IsFirstImport(code) == code = 404

\* Variant: the argument is kept.
FirstImportMinSizeKept(m) == m
\* min_size = 0 on the first import
FirstImportMinSize(m) == 0

\* ls.get('lastEventTimestamp', 0)
LastEventTimestampOr0(d) == IF d = {} THEN 0 ELSE Max(d)

\* Variant: no prefilter.
StreamSelectedAlways(d, lwt) == TRUE
\* ls.get('lastEventTimestamp', 0) > last_written_time
StreamSelected(d, lwt) == LastEventTimestampOr0(d) > lwt

\* startTime=last_written_time + 1
StartTime(lwt) == lwt + 1

\* event_time <= last_written_time
AlreadyProcessed(event_time, lwt) == event_time <= lwt

\* Variant: an event at or below the running high-water mark is skipped too.
SkipEventBelowHighWater(event_time, lwt, lwtr) ==
    AlreadyProcessed(event_time, lwt) \/ event_time <= lwtr
\* if event_time <= last_written_time: continue
\* (the test reads the checkpoint, not last_written_this_run)
SkipEvent(event_time, lwt, lwtr) == AlreadyProcessed(event_time, lwt)

\* Variant: the boundary is excluded.
PassesSizeStrict(size, m) == size > m
\* if log_data_size >= min_size
PassesSize(size, m) == size >= m

\* object_key = f"{log_prefix}/logs/{log_stream_name}/{event_time}.gz"
\* (one prefix and one bucket: the key is the stream name and the decimal
\* text of the timestamp)
ObjectKey(stream, event_time) == <<stream, StrOfInt(event_time)>>

\* Variant: the mark follows the last event written.
HighWaterLast(event_time, lwtr) == event_time
\* if event_time > last_written_this_run: last_written_this_run = event_time
HighWater(event_time, lwtr) == IF event_time > lwtr THEN event_time ELSE lwtr

\* Variant: the update stands outside the size branch.
HighWaterOnRejectAdvance(event_time, lwtr) == HighWater(event_time, lwtr)
\* The high-water mark after an event the size filter rejected: the update
\* is inside the size branch, so it keeps its value.
HighWaterOnReject(event_time, lwtr) == lwtr

\* Variant: the mark is raised before the put is known to have succeeded.
HighWaterOnFailedPutAdvance(event_time, lwtr) == HighWater(event_time, lwtr)
\* The high-water mark after a put that raised: the raise at line 83 leaves
\* the function before the update, so it keeps its value.
HighWaterOnFailedPut(event_time, lwtr) == lwtr

\* Variant: the config file is written after every run.
ShouldAdvanceAlways(lwtr) == lwtr >= 0
\* if last_written_this_run > 0
ShouldAdvance(lwtr) == lwtr > 0

\* Variants: the error is swallowed and the run goes on to the config put;
\* the error is logged and the loop goes on with the next event.
AfterUploadErrorSwallow == "advance"
AfterUploadErrorSkip == "event"
\* except ClientError on the object put: raise RuntimeError
AfterUploadError == "failed"

\* event_paginator.paginate: the events still to come after page p.
RestAfterPage(rest, p) == rest \ p

(* ------------------------------ state --------------------------------- *)
VARIABLES
    \* the environment
    events,                 \* the log events of the group: [stream, timestamp, size]
    lastEventTimestamp,     \* per stream: {} (not reported) or {t}
    config_file,            \* the object {prefix}/config_file
    objects,                \* the keys of the objects under {prefix}/logs/
    \* the run
    pc,
    cfg_min_size,           \* the min_size argument
    min_size,
    last_written_time,
    copied_file_count,
    last_written_this_run,
    logs_to_process,        \* the streams the for loop has still to visit
    log_stream_name,
    pending,                \* events of the stream the paginator has still to return
    page,                   \* events of the current page still to visit
    \* history
    runs,                   \* runs started
    err,                    \* what ended the run: "none" while it has not failed
    calls,                  \* the service calls this run has made
    head_status,            \* the HTTP status head_bucket answered with, 0 before the call
    config_status,          \* the HTTP status get_object answered with, 0 before the call
    visited,                \* the streams the for loop has taken
    pre_config,             \* config_file when the run started
    seen,                   \* events the event loop has visited in this run
    written,                \* events whose object put succeeded in this run
    rewritten,              \* keys put when an object of that key existed
    settled,                \* keys put by a run that completed
    quiet_for,              \* the min_size of the run that just completed, while nothing changed since
    repeat,                 \* this run repeats a completed run on an unchanged source
    failed_for,             \* the min_size and the config file the run that just failed started with, while nothing changed since
    retry,                  \* the failed run this run repeats on an unchanged source, if any
    tracking                \* whether failed_for and retry are kept (fixed for a behaviour)

env == <<events, lastEventTimestamp>>
frame == <<cfg_min_size, min_size, last_written_time, copied_file_count,
           last_written_this_run, logs_to_process, log_stream_name, pending, page>>
hist == <<runs, head_status, config_status, visited, pre_config, seen, written, rewritten, settled,
          quiet_for, repeat, failed_for, retry>>
vars == <<events, lastEventTimestamp, config_file, objects, pc, cfg_min_size,
          min_size, last_written_time, copied_file_count, last_written_this_run,
          logs_to_process, log_stream_name, pending, page, runs, err, calls,
          head_status, config_status, visited,
          pre_config, seen, written, rewritten, settled, quiet_for,
          repeat, failed_for, retry, tracking>>

Keys == {ObjectKey(s, t) : s \in Streams, t \in Times}
Running == pc \notin {"idle", "done", "failed"}
StreamEvents(s) == {e \in events : e.stream = s}

\* No run yet: an empty log group, an empty bucket.
Initial ==
    /\ events = {}
    /\ lastEventTimestamp = [s \in Streams |-> {}]
    /\ config_file = NoObject
    /\ objects = {}
    /\ pc = "idle"
    /\ cfg_min_size = 0
    /\ min_size = 0
    /\ last_written_time = 0
    /\ copied_file_count = 0
    /\ last_written_this_run = 0
    /\ logs_to_process = <<>>
    /\ log_stream_name = ""
    /\ pending = {}
    /\ page = {}
    /\ runs = 0
    /\ err = "none"
    /\ calls = {}
    /\ head_status = 0
    /\ config_status = 0
    /\ visited = {}
    /\ pre_config = NoObject
    /\ seen = {}
    /\ written = {}
    /\ rewritten = {}
    /\ settled = {}
    /\ quiet_for = {}
    /\ repeat = FALSE
    /\ failed_for = {}
    /\ retry = {}

Init == Initial /\ tracking = FALSE

(* --------------------------- the environment -------------------------- *)
\* The log group gains an event; (stream, timestamp) identifies an event.
\* The stream's descriptor is not refreshed by the same step.
PutLogEvent(s, t, z) ==
    /\ pc = "idle"
    /\ Cardinality(events) < MaxEvents
    /\ \A e \in events : ~(e.stream = s /\ e.timestamp = t)
    /\ events' = events \cup {[stream |-> s, timestamp |-> t, size |-> z]}
    /\ quiet_for' = {}
    /\ failed_for' = {}
    /\ UNCHANGED <<tracking, lastEventTimestamp, config_file, objects, pc, frame, runs, err,
                   calls, head_status, config_status, visited, pre_config, seen, written, rewritten, settled, repeat, retry>>

\* The service brings a stream's lastEventTimestamp up to date.
RefreshDescriptor(s) ==
    /\ pc = "idle"
    /\ StreamEvents(s) # {}
    /\ lastEventTimestamp[s] # {Max({e.timestamp : e \in StreamEvents(s)})}
    /\ lastEventTimestamp' =
           [lastEventTimestamp EXCEPT ![s] = {Max({e.timestamp : e \in StreamEvents(s)})}]
    /\ quiet_for' = {}
    /\ failed_for' = {}
    /\ UNCHANGED <<tracking, events, config_file, objects, pc, frame, runs, err, calls,
                   head_status, config_status, visited, pre_config, seen, written, rewritten, settled, repeat, retry>>

(* ------------------------------ a run --------------------------------- *)
\* The call of copy_logs_from_cloudwatch_to_s3 and its first assignments.
StartRun(m) ==
    /\ pc = "idle"
    /\ runs < MaxRuns
    /\ pc' = "head_bucket"
    /\ cfg_min_size' = m
    /\ min_size' = m
    /\ last_written_time' = 0
    /\ copied_file_count' = 0
    /\ last_written_this_run' = 0
    /\ logs_to_process' = <<>>
    /\ log_stream_name' = ""
    /\ pending' = {}
    /\ page' = {}
    /\ runs' = runs + 1
    /\ err' = "none"
    /\ calls' = {}
    /\ head_status' = 0
    /\ config_status' = 0
    /\ visited' = {}
    /\ pre_config' = config_file
    /\ seen' = {}
    /\ written' = {}
    /\ quiet_for' = {}
    /\ repeat' = (m \in quiet_for)
    /\ failed_for' = {}
    /\ retry' = {f \in failed_for : f.min_size = m}
    /\ UNCHANGED <<env, tracking, config_file, objects, rewritten, settled>>

\* A faulty variant: the failed call is made again instead of ending the run.
FailRetry(why) ==
    /\ pc' = pc
    /\ err' = err

\* The run ends with an exception.
Fail(why) ==
    /\ pc' = "failed"
    /\ err' = why

\* s3_client.head_bucket
HeadBucket ==
    /\ pc = "head_bucket"
    /\ calls' = calls \cup {"head_bucket"}
    /\ \E code \in {200, 403, 404} :
          /\ head_status' = code
          /\ IF code = 200
             THEN pc' = "get_config" /\ err' = err
             ELSE Fail("bucket")
    /\ UNCHANGED <<env, tracking, config_file, objects, frame, runs, config_status, visited,
                   pre_config, seen, written, rewritten, settled, quiet_for, repeat, failed_for, retry>>

\* s3_client.get_object of the config file
GetConfig ==
    /\ pc = "get_config"
    /\ calls' = calls \cup {"get_config"}
    /\ \E code \in (IF config_file.exists THEN {200, 403} ELSE {404, 403}) :
          /\ config_status' = code
          /\ IF code = 200
             THEN /\ last_written_time' = ParseCheckpoint(config_file.body)
                  /\ min_size' = min_size
                  /\ pc' = "describe_log_streams"
                  /\ err' = err
             ELSE IF IsFirstImport(code)
             THEN /\ min_size' = FirstImportMinSize(min_size)
                  /\ last_written_time' = last_written_time
                  /\ pc' = "describe_log_streams"
                  /\ err' = err
             ELSE /\ Fail("config")
                  /\ UNCHANGED <<min_size, last_written_time>>
    /\ UNCHANGED <<env, tracking, config_file, objects, cfg_min_size, copied_file_count,
                   last_written_this_run, logs_to_process, log_stream_name, pending,
                   page, runs, head_status, visited, pre_config, seen, written,
                   rewritten, settled, quiet_for, repeat, failed_for, retry>>

\* The orders describe_log_streams (orderBy LastEventTime, descending) can return
\* the streams in; a stream without a reported timestamp has no fixed place.
Orders ==
    {q \in [1 .. Cardinality(Streams) -> Streams] :
        /\ \A i, j \in DOMAIN q : i # j => q[i] # q[j]
        /\ \A i, j \in DOMAIN q :
               (i < j /\ lastEventTimestamp[q[i]] # {} /\ lastEventTimestamp[q[j]] # {})
                   => Max(lastEventTimestamp[q[i]]) >= Max(lastEventTimestamp[q[j]])}

RECURSIVE Select(_, _)
Select(q, lwt) ==
    IF q = <<>> THEN <<>>
    ELSE IF StreamSelected(lastEventTimestamp[Head(q)], lwt)
         THEN <<Head(q)>> \o Select(Tail(q), lwt)
         ELSE Select(Tail(q), lwt)

\* All pages of describe_log_streams, then the stream prefilter.
DescribeLogStreams ==
    /\ pc = "describe_log_streams"
    /\ calls' = calls \cup {"describe_log_streams"}
    /\ \/ /\ \E q \in Orders :
                logs_to_process' = Select([i \in 1 .. Len(q) |-> q[i]], last_written_time)
          /\ pc' = "next_stream"
          /\ err' = err
       \/ /\ Fail("source")
          /\ UNCHANGED logs_to_process
    /\ UNCHANGED <<env, tracking, config_file, objects, cfg_min_size, min_size, last_written_time,
                   copied_file_count, last_written_this_run, log_stream_name, pending,
                   page, hist>>

\* for log_stream in logs_to_process: the paginator of filter_log_events is
\* created for the stream; the service returns the events from startTime on.
NextStream ==
    /\ pc = "next_stream"
    /\ IF logs_to_process = <<>>
       THEN /\ pc' = "advance"
            /\ UNCHANGED <<logs_to_process, log_stream_name, pending, visited>>
       ELSE /\ log_stream_name' = Head(logs_to_process)
            /\ visited' = visited \cup {Head(logs_to_process)}
            /\ logs_to_process' = Tail(logs_to_process)
            /\ pending' = {e \in StreamEvents(Head(logs_to_process)) :
                              e.timestamp >= StartTime(last_written_time)}
            /\ pc' = "filter_log_events"
    /\ UNCHANGED <<env, tracking, config_file, objects, cfg_min_size, min_size, last_written_time,
                   copied_file_count, last_written_this_run, page, err, calls, runs,
                   head_status, config_status, pre_config, seen, written, rewritten,
                   settled, quiet_for, repeat, failed_for, retry>>

\* One page of filter_log_events; the service decides where a page ends.
FilterLogEvents ==
    /\ pc = "filter_log_events"
    /\ calls' = calls \cup {"filter_log_events"}
    /\ \/ /\ pending = {}
          /\ pc' = "next_stream"
          /\ err' = err
          /\ UNCHANGED <<pending, page>>
       \/ /\ pending # {}
          /\ \E p \in SUBSET pending :
                /\ p # {}
                /\ page' = p
                /\ pending' = RestAfterPage(pending, p)
          /\ pc' = "event"
          /\ err' = err
       \/ /\ Fail("source")
          /\ UNCHANGED <<pending, page>>
    /\ UNCHANGED <<env, tracking, config_file, objects, cfg_min_size, min_size, last_written_time,
                   copied_file_count, last_written_this_run, logs_to_process,
                   log_stream_name, hist>>

\* for event in page['events']: one iteration, the put of the object included.
ProcessEvent ==
    /\ pc = "event"
    /\ IF page = {}
       THEN /\ pc' = "filter_log_events"
            /\ UNCHANGED <<objects, copied_file_count, last_written_this_run, page,
                           err, calls, seen, written, rewritten>>
       ELSE \E e \in page :
            /\ page' = page \ {e}
            /\ seen' = seen \cup {e}
            /\ IF SkipEvent(e.timestamp, last_written_time, last_written_this_run)
               THEN /\ pc' = "event"
                    /\ UNCHANGED <<objects, copied_file_count, last_written_this_run,
                                   err, calls, written, rewritten>>
               ELSE IF PassesSize(e.size, min_size)
               THEN /\ calls' = calls \cup {"put_object"}
                    /\ \/ /\ objects' = objects \cup {ObjectKey(log_stream_name, e.timestamp)}
                          /\ rewritten' =
                                 rewritten \cup ({ObjectKey(log_stream_name, e.timestamp)} \cap objects)
                          /\ written' = written \cup {e}
                          /\ copied_file_count' = copied_file_count + 1
                          /\ last_written_this_run' =
                                 HighWater(e.timestamp, last_written_this_run)
                          /\ pc' = "event"
                          /\ err' = err
                       \/ /\ pc' = AfterUploadError
                          /\ err' = "upload"
                          /\ last_written_this_run' =
                                 HighWaterOnFailedPut(e.timestamp, last_written_this_run)
                          /\ UNCHANGED <<objects, rewritten, written, copied_file_count>>
               ELSE /\ last_written_this_run' =
                           HighWaterOnReject(e.timestamp, last_written_this_run)
                    /\ pc' = "event"
                    /\ UNCHANGED <<objects, copied_file_count, err, calls, written,
                                   rewritten>>
    /\ UNCHANGED <<env, tracking, config_file, cfg_min_size, min_size, last_written_time,
                   logs_to_process, log_stream_name, pending, runs, head_status,
                   config_status, visited, pre_config, settled, quiet_for, repeat, failed_for, retry>>

\* The end of the function: the put of the config file when something was
\* copied, then the return.
AdvanceCheckpoint ==
    /\ pc = "advance"
    /\ IF ShouldAdvance(last_written_this_run)
       THEN /\ calls' = calls \cup {"put_config"}
            /\ \/ /\ config_file' =
                         Object(CheckpointBody(last_written_time, last_written_this_run))
                  /\ pc' = "done"
                  /\ err' = err
               \/ /\ Fail("config_write")
                  /\ UNCHANGED config_file
       ELSE /\ pc' = "done"
            /\ UNCHANGED <<config_file, err, calls>>
    /\ settled' = IF pc' = "done"
                  THEN settled \cup {ObjectKey(e.stream, e.timestamp) : e \in written}
                  ELSE settled
    /\ UNCHANGED <<env, tracking, objects, frame, runs, head_status, config_status, visited,
                   pre_config, seen, written, rewritten, quiet_for, repeat, failed_for, retry>>

\* The process is terminated between two calls.
Terminate ==
    /\ Running
    /\ Fail("terminated")
    /\ UNCHANGED <<env, tracking, config_file, objects, frame, calls, hist>>

\* The function returns or its exception ends the process: the locals are gone.
Exit ==
    /\ pc \in {"done", "failed"}
    /\ pc' = "idle"
    /\ cfg_min_size' = 0
    /\ min_size' = 0
    /\ last_written_time' = 0
    /\ copied_file_count' = 0
    /\ last_written_this_run' = 0
    /\ logs_to_process' = <<>>
    /\ log_stream_name' = ""
    /\ pending' = {}
    /\ page' = {}
    /\ err' = "none"
    /\ calls' = {}
    /\ head_status' = 0
    /\ config_status' = 0
    /\ visited' = {}
    /\ pre_config' = config_file
    /\ seen' = {}
    /\ written' = {}
    /\ quiet_for' = IF pc = "done" THEN {cfg_min_size} ELSE {}
    /\ repeat' = FALSE
    /\ failed_for' = IF tracking /\ err # "none"
                   THEN {[min_size |-> cfg_min_size, config |-> pre_config]}
                   ELSE {}
    /\ retry' = {}
    /\ UNCHANGED <<env, tracking, config_file, objects, runs, rewritten, settled>>

Next ==
    \/ \E s \in Streams, t \in Times, z \in Sizes : PutLogEvent(s, t, z)
    \/ \E s \in Streams : RefreshDescriptor(s)
    \/ \E m \in MinSizes : StartRun(m)
    \/ HeadBucket
    \/ GetConfig
    \/ DescribeLogStreams
    \/ NextStream
    \/ FilterLogEvents
    \/ ProcessEvent
    \/ AdvanceCheckpoint
    \/ Terminate
    \/ Exit

Spec == Init /\ [][Next]_vars

\* The same behaviours, with the link from a run to the failed run before it kept.
InitTracking == Initial /\ tracking = TRUE
SpecTracking == InitTracking /\ [][Next]_vars

\* A step of the run itself.  Every call to a service returns or raises, and
\* the statements between two calls are finite, so a run that is not
\* terminated from outside keeps taking steps.
RunStep ==
    \/ HeadBucket
    \/ GetConfig
    \/ DescribeLogStreams
    \/ NextStream
    \/ FilterLogEvents
    \/ ProcessEvent
    \/ AdvanceCheckpoint
SpecFair == Init /\ [][Next]_vars /\ WF_vars(RunStep)

TypeOK ==
    /\ events \subseteq [stream : Streams, timestamp : Times, size : Sizes]
    /\ \A s \in Streams : Cardinality(lastEventTimestamp[s]) <= 1
    /\ pc \in {"idle", "head_bucket", "get_config", "describe_log_streams",
               "next_stream", "filter_log_events", "event", "advance", "done", "failed"}
    /\ objects \subseteq Keys
    /\ written \subseteq seen
    /\ runs \in 0 .. MaxRuns

(* ----------------------------- properties ----------------------------- *)
\* The checkpoint an object stands for: its decimal value, 0 when absent.
Checkpoint(o) == IF o.exists THEN IntOfStr(o.body) ELSE 0
KeyOf(e) == ObjectKey(e.stream, e.timestamp)
MaxTimestamp(S) == IF S = {} THEN 0 ELSE Max({e.timestamp : e \in S})
\* The minimum size the run has to filter with: the argument, 0 on a first import.
EffectiveMinSize == IF pre_config.exists THEN cfg_min_size ELSE 0
\* The config file was read, or found absent, and the run went on.
ConfigRead == "get_config" \in calls /\ err # "config"

\* C1: no event with a timestamp at or below the checkpoint that was
\* persisted when the run started has its object put by that run.
C1_NoOldEventWritten ==
    \A e \in written : e.timestamp > Checkpoint(pre_config)
\* A completed run that started from a checkpoint, wrote an object and left
\* an older event of the same stream alone.
C1_Witness ==
    /\ pc = "done"
    /\ pre_config.exists
    /\ \E w \in written : \E e \in events :
          e.stream = w.stream /\ e.timestamp <= Checkpoint(pre_config)

\* C2: a completed run that put at least one object leaves the checkpoint at
\* the greatest timestamp it wrote, above the checkpoint it started from.
C2_CheckpointIsMaxWritten ==
    (pc = "done" /\ written # {}) =>
        /\ config_file.exists
        /\ Checkpoint(config_file) = MaxTimestamp(written)
        /\ Checkpoint(config_file) > Checkpoint(pre_config)
\* A completed run that wrote two events of different timestamps.
C2_Witness ==
    /\ pc = "done"
    /\ \E e1, e2 \in written : e1.timestamp < e2.timestamp

\* C3: a completed run that put no object does not put the config file: the
\* object keeps its body, or stays absent.
C3_NoCopyNoCheckpointWrite ==
    (pc = "done" /\ written = {}) =>
        /\ "put_config" \notin calls
        /\ config_file = pre_config
\* A completed run from a checkpoint whose only new event the size filter rejected.
C3_Witness ==
    /\ pc = "done"
    /\ written = {}
    /\ pre_config.exists
    /\ \E e \in seen : e.timestamp > Checkpoint(pre_config) /\ e.size < cfg_min_size

\* C4: no step lowers the persisted checkpoint or removes its object.
C4_CheckpointMonotonic ==
    [][/\ Checkpoint(config_file') >= Checkpoint(config_file)
       /\ (config_file.exists => config_file'.exists)]_vars
\* The checkpoint was advanced from one value to a greater one.
C4_Witness ==
    /\ pc = "done"
    /\ pre_config.exists
    /\ Checkpoint(config_file) > Checkpoint(pre_config)

\* C5: a run in which a call failed, or that was terminated, leaves the
\* config file as it found it; the config file differs from what the run
\* found only once the run is done, after the put of the config file, and
\* only when the run wrote an object.
C5_FailedRunKeepsCheckpoint ==
    /\ (err # "none" \/ pc = "failed") => config_file = pre_config
    /\ config_file # pre_config =>
          (pc = "done" /\ "put_config" \in calls /\ written # {})
\* A run that failed after it had put an object, from an existing checkpoint.
C5_Witness ==
    /\ pc = "failed"
    /\ err \in {"upload", "config_write", "source"}
    /\ written # {}
    /\ pre_config.exists

\* C6, as claimed: no object key is ever put a second time.
C6_KeyPutAtMostOnce == rewritten = {}
\* C6, amended: a key put by a run that completed is never put again by a
\* later run (a run that failed after its puts does not settle its keys: the
\* next run puts them again).
C6_SettledKeyNeverPutAgain ==
    (Running \/ pc = "failed") => \A e \in written : KeyOf(e) \notin settled
\* A run puts a key again that a failed run had put, while the key of a
\* completed run is left alone.
C6_Witness ==
    /\ settled # {}
    /\ \E e \in written : KeyOf(e) \in rewritten /\ KeyOf(e) \notin settled

\* C7: a run started with the same min_size right after a completed run, the
\* source unchanged, puts no object and leaves the config file as it is.
C7_Idempotent ==
    repeat => (written = {} /\ config_file = pre_config /\ "put_object" \notin calls)
\* The repeating run is done, and visited an event that it, like the run
\* before, rejected by size.
C7_Witness ==
    /\ repeat
    /\ pc = "done"
    /\ \E e \in seen : e.size < cfg_min_size

\* C8: once the config file was read, min_size is 0 when the object was
\* absent and the argument when it was present; a completed first import
\* wrote every event with a timestamp above 0 of the streams it visited.
C8_FirstImportIgnoresMinSize ==
    /\ ConfigRead => min_size = (IF pre_config.exists THEN cfg_min_size ELSE 0)
    /\ (pc = "done" /\ ~pre_config.exists) =>
          \A e \in events : (e.stream \in visited /\ e.timestamp > 0) => e \in written
\* A completed first import, started with a threshold, wrote a smaller event.
C8_Witness ==
    /\ pc = "done"
    /\ ~pre_config.exists
    /\ \E e \in written : e.size < cfg_min_size

\* C9: a completed run wrote exactly the events of the visited streams that
\* are newer than the checkpoint it started from and at least as large as
\* the effective minimum size; the count and the high-water mark are those
\* of the written events alone.
C9_WrittenIffNewAndLargeEnough ==
    pc = "done" =>
        /\ written = {e \in events : /\ e.stream \in visited
                                     /\ e.timestamp > Checkpoint(pre_config)
                                     /\ e.size >= EffectiveMinSize}
        /\ copied_file_count = Cardinality(written)
        /\ last_written_this_run = MaxTimestamp(written)
\* A completed run from a checkpoint with a threshold: an event exactly as
\* large as the threshold was written, an older event was not.
C9_Witness ==
    /\ pc = "done"
    /\ pre_config.exists
    /\ cfg_min_size > 0
    /\ \E e \in written : e.size = cfg_min_size
    /\ \E e \in events : e.stream \in visited /\ e.timestamp <= Checkpoint(pre_config)

\* C10: a refused head_bucket ends the run with no other call made; a
\* get_object refused with anything but 404 ends it with no call to the log
\* service and no put; after a 404 the run goes on from checkpoint 0.
C10_StartupFailuresAreTerminal ==
    /\ head_status \notin {0, 200} =>
          (pc = "failed" /\ calls = {"head_bucket"} /\ written = {}
              /\ config_file = pre_config)
    /\ config_status \notin {0, 200, 404} =>
          (pc = "failed" /\ calls = {"head_bucket", "get_config"} /\ written = {}
              /\ config_file = pre_config)
    /\ config_status = 404 => (err # "config" /\ last_written_time = 0)
\* get_object was refused although the checkpoint exists and events wait.
C10_Witness ==
    /\ config_status = 403
    /\ pc = "failed"
    /\ pre_config.exists
    /\ \E e \in events : e.timestamp > Checkpoint(pre_config)

\* What a run that starts from config file c with min_size m and completes
\* does on the source as it is: the streams it visits, the events it writes,
\* the config file it leaves.
WouldVisit(c) ==
    {s \in Streams : \E t \in lastEventTimestamp[s] : t > Checkpoint(c)}
WouldWrite(c, m) ==
    {e \in events : /\ e.stream \in WouldVisit(c)
                    /\ e.timestamp > Checkpoint(c)
                    /\ e.size >= (IF c.exists THEN m ELSE 0)}
WouldLeave(c, m) ==
    IF WouldWrite(c, m) = {} THEN c
    ELSE Object(StrOfInt(MaxTimestamp(WouldWrite(c, m))))

\* C11: what a run that failed or was terminated had put is part of what it
\* would have written; the run that follows it with the same min_size on the
\* unchanged source starts from the same config file and, when done, has
\* written exactly the events the failed run would have written and left
\* the config file the failed run would have left.
C11_RetryRedoesFailedRun ==
    /\ err # "none" => written \subseteq WouldWrite(pre_config, cfg_min_size)
    /\ \A f \in retry :
          /\ pre_config = f.config
          /\ pc = "done" =>
                /\ written = WouldWrite(f.config, f.min_size)
                /\ config_file = WouldLeave(f.config, f.min_size)
\* The retry is done and has put again a key the failed run had put, and a
\* key the failed run had not reached.
C11_Witness ==
    /\ retry # {}
    /\ pc = "done"
    /\ \E e1, e2 \in written : KeyOf(e1) \in rewritten /\ KeyOf(e2) \notin rewritten

\* C12: a completed run skipped a stream that holds an event newer than the
\* checkpoint the run started from only if the stream's lastEventTimestamp
\* was reported and was at or below that checkpoint; the event loop saw the
\* new events of every stream whose timestamp was not reported.
C12_PrefilterSkipsOnlyKnownOld ==
    pc = "done" =>
        \A s \in Streams :
            /\ ((\E e \in StreamEvents(s) : e.timestamp > Checkpoint(pre_config))
                    /\ s \notin visited) =>
                   \E t \in lastEventTimestamp[s] : t <= Checkpoint(pre_config)
            /\ lastEventTimestamp[s] = {} =>
                   \A e \in StreamEvents(s) :
                       e.timestamp > Checkpoint(pre_config) => e \in seen

\* C13: a completed run wrote the events a run without the stream prefilter
\* writes, every new and large enough event of every stream, and left the
\* checkpoint such a run leaves.  Stated for the streams whose
\* lastEventTimestamp is reported, where the prefilter is the only cause.
C13_PrefilterIsPureOptimization ==
    pc = "done" =>
        LET all == {e \in events : /\ lastEventTimestamp[e.stream] # {}
                                   /\ e.timestamp > Checkpoint(pre_config)
                                   /\ e.size >= EffectiveMinSize}
        IN  /\ all \subseteq written
            /\ Checkpoint(config_file) >= MaxTimestamp(all)

\* C14: the high-water mark is the greatest timestamp among the events whose
\* put succeeded in this run, 0 when there is none, and the copied count is
\* the number of these events; a put that failed has raised neither.
C14_MarkAndCountFollowConfirmedPuts ==
    /\ last_written_this_run = MaxTimestamp(written)
    /\ copied_file_count = Cardinality(written)
\* A put failed for an event newer than everything written so far.
C14_Witness ==
    /\ err = "upload"
    /\ written # {}
    /\ \E e \in seen \ written : e.timestamp > last_written_this_run

\* C15: a failed object put ends the run at once, in the failed state and
\* with no config put; from then on the run puts no object and no config
\* file: the only step left is the exit.
C15_UploadFailureAbortsRun ==
    [][/\ err' = "upload" =>
              (pc' = "failed" /\ "put_config" \notin calls' /\ config_file' = pre_config')
       /\ err = "upload" =>
              (pc' = "idle" /\ objects' = objects /\ config_file' = config_file)]_vars
\* A put failed while events or streams were still to come.
C15_Witness ==
    /\ err = "upload"
    /\ pc = "failed"
    /\ (page # {} \/ pending # {} \/ logs_to_process # <<>>)

\* C16: the calls of a run come in the order head_bucket, get_object,
\* describe_log_streams, filter_log_events with the object puts, config put:
\* a call is made only after the calls before it succeeded, the config put
\* only when no stream, page or event is left, and after it the run makes
\* no call at all.
C16_StepsInOrder ==
    /\ "get_config" \in calls => head_status = 200
    /\ "describe_log_streams" \in calls => config_status \in {200, 404}
    /\ "filter_log_events" \in calls =>
          ("describe_log_streams" \in calls /\ config_status \in {200, 404})
    /\ "put_object" \in calls =>
          ("filter_log_events" \in calls /\ head_status = 200)
    /\ written # {} => "put_object" \in calls
    /\ "put_config" \in calls =>
          /\ pc \in {"done", "failed"}
          /\ logs_to_process = <<>> /\ pending = {} /\ page = {}
          /\ written # {}
    /\ pc = "done" => {"head_bucket", "get_config", "describe_log_streams"} \subseteq calls
\* A completed run that visited both streams, put objects and the config file.
C16_Witness ==
    /\ pc = "done"
    /\ "put_config" \in calls
    /\ visited = Streams
    /\ \A s \in Streams : \E e \in written : e.stream = s

\* C17: what a completed run wrote and the config file it left depend on
\* the source, the config file it started from and min_size alone, not on
\* the order in which streams, pages and events came.
C17_OrderIsCosmetic ==
    pc = "done" =>
        /\ written = WouldWrite(pre_config, cfg_min_size)
        /\ config_file = WouldLeave(pre_config, cfg_min_size)
\* A completed run that wrote events of different timestamps from two streams.
C17_Witness ==
    /\ pc = "done"
    /\ \E e1, e2 \in written : e1.stream # e2.stream /\ e1.timestamp < e2.timestamp

\* C18: a run that is under way ends, done or failed.
C18_RunTerminates == Running ~> (pc \in {"done", "failed"})
\* A run is done after two pages of one stream.
C18_Witness ==
    /\ pc = "done"
    /\ \E e1, e2 \in written : e1.stream = e2.stream /\ e1 # e2
====
